---- MODULE Spec2Model ----
(***************************************************************************)
(* PropertyGraphUtils (analytical_engine/core/object/graph_utils.h): the   *)
(* invoker of the property_graph_frame library.  The object holds a        *)
(* library handle and five function pointers; Init() opens the library and *)
(* resolves the pointers, and each operation method forwards its arguments *)
(* and a default-constructed result slot to one of the pointers.           *)
(***************************************************************************)
EXTENDS Integers, Sequences, FiniteSets, TLC

\* Number of method calls made on the object in one behaviour.
MaxCalls == 3
\* Number of distinct library images (handles) the loader can hand out.
MaxLibs == 2
\* Number of threads that call operation methods on the one object.
NumThreads == 2

VARIABLES
  experimental,            \* EXPERIMENTAL_ON of the build (fixed per behaviour)
  lib_path_,               \* std::string lib_path_
  dl_handle_,              \* void* dl_handle_
  load_graph_,             \* LoadGraphT* load_graph_
  add_vertices_to_graph_,  \* AddVerticesToGraphT* add_vertices_to_graph_
  add_edges_to_graph_,     \* AddEdgesToGraphT* add_edges_to_graph_
  to_arrow_fragment_,      \* ToArrowFragmentT* to_arrow_fragment_
  to_dynamic_fragment_,    \* ToDynamicFragmentT* to_dynamic_fragment_
  call,                    \* the last call that returned (or crashed)
  init_ok,                 \* some Init() call has returned success
  init_failed,             \* some Init() call has returned an error
  opened,                  \* successful open_lib calls so far
  released,                \* library handles closed so far
  th,                      \* per calling thread: where it is in a method
  ncalls,                  \* calls made so far
  alive                    \* the process has not been terminated

vars == <<experimental, lib_path_, released, th, dl_handle_, load_graph_, add_vertices_to_graph_,
          add_edges_to_graph_, to_arrow_fragment_, to_dynamic_fragment_,
          call, init_ok, init_failed, opened, ncalls, alive>>

----------------------------------------------------------------------------
\* Values

\* nullptr of void* (a handle is the number of the library image it names)
NullHandle == 0
\* nullptr of a function pointer type
NullPtr == [lib |-> NullHandle, sym |-> "nullptr"]

\* The entry point `symbol` of the library image behind `handle`
EntryPoint(handle, symbol) == [lib |-> handle, sym |-> symbol]

\* bl::result values.  ok: holds a value; otherwise an error with its code
\* (and, for a symbol resolution error, the symbol it names).
OkResult(v) == [ok |-> TRUE, value |-> v, code |-> "", symbol |-> ""]
ErrResult(c, s) == [ok |-> FALSE, value |-> "", code |-> c, symbol |-> s]

\* A result slot that starts out holding an error
DefaultResultError == ErrResult("uninitialized", "")

\* bl::result<std::shared_ptr<IFragmentWrapper>> wrapper;  (default
\* construction: a value-initialised shared_ptr, i.e. success with nullptr)
DefaultResult == OkResult("nullptr")
\* bl::result<void>{}  returned by Init on success
OkVoid == OkResult("void")
\* RETURN_GS_ERROR(vineyard::ErrorCode::kUnsupportedOperationError, ...)
UnsupportedOperation ==
  ErrResult("kUnsupportedOperationError", "")
\* The result recorded for a call that terminated the process
Crashed == ErrResult("SIGSEGV", "")

\* The members of the object as one record
Members ==
  [dl_handle_ |-> dl_handle_,
   load_graph_ |-> load_graph_,
   add_vertices_to_graph_ |-> add_vertices_to_graph_,
   add_edges_to_graph_ |-> add_edges_to_graph_,
   to_arrow_fragment_ |-> to_arrow_fragment_,
   to_dynamic_fragment_ |-> to_dynamic_fragment_]

\* The order in which Init resolves symbols and the member each is stored in
ResolveOrderSwapped ==
  << [symbol |-> "LoadGraph", member |-> "load_graph_"],
     [symbol |-> "AddEdgesToGraph", member |-> "add_edges_to_graph_"],
     [symbol |-> "AddVerticesToGraph", member |-> "add_vertices_to_graph_"],
     [symbol |-> "ToDynamicFragment", member |-> "to_dynamic_fragment_"],
     [symbol |-> "ToArrowFragment", member |-> "to_arrow_fragment_"] >>

ResolveOrder ==
  << [symbol |-> "LoadGraph", member |-> "load_graph_"],
     [symbol |-> "AddVerticesToGraph", member |-> "add_vertices_to_graph_"],
     [symbol |-> "AddEdgesToGraph", member |-> "add_edges_to_graph_"],
     [symbol |-> "ToArrowFragment", member |-> "to_arrow_fragment_"],
     [symbol |-> "ToDynamicFragment", member |-> "to_dynamic_fragment_"] >>

BindingMembers == {ResolveOrder[i].member : i \in 1..Len(ResolveOrder)}
SymbolNames == {ResolveOrder[i].symbol : i \in 1..Len(ResolveOrder)}

----------------------------------------------------------------------------
\* The environment: the library found at lib_path_ when Init runs

\* The library path given to the constructor
LibPaths == {"/opt/graphscope/lib/libproperty_graph_frame.so"}

\* What is at lib_path_: whether dlopen can open it, the image (handle) the
\* loader returns for it, and the symbols it exports.  A file that cannot be
\* opened has no image; it is drawn with no symbol and with every symbol.
Libraries ==
  [id : 1..MaxLibs, openable : {TRUE}, exports : SUBSET SymbolNames]
    \cup [id : {NullHandle}, openable : {FALSE}, exports : {{}, SymbolNames}]
NoLib == [id |-> NullHandle, openable |-> FALSE, exports |-> {}]

\* open_lib (core/utils/lib_utils.h): the handle, or the library-load error
open_lib(lib) ==
  IF lib.openable
  THEN [ok |-> TRUE, handle |-> lib.id, err |-> OkVoid]
  ELSE [ok |-> FALSE, handle |-> NullHandle,
        err |-> ErrResult("LibraryLoadError", "")]

\* get_func_ptr (core/utils/lib_utils.h): the address of `symbol` in the
\* opened library, or the symbol-resolution error naming `symbol`
get_func_ptr(lib, handle, symbol) ==
  IF symbol \in lib.exports
  THEN [ok |-> TRUE, ptr |-> EntryPoint(handle, symbol), err |-> OkVoid]
  ELSE [ok |-> FALSE, ptr |-> NullPtr,
        err |-> ErrResult("SymbolResolutionError", symbol)]

----------------------------------------------------------------------------
\* Init()

\* Init with the two conversion blocks compiled only under EXPERIMENTAL_ON
RECURSIVE ResolveFromGated(_, _, _)
ResolveFromGated(i, lib, st) ==
  IF \/ i > Len(ResolveOrder)
     \/ (~experimental /\ ResolveOrder[i].symbol
                            \in {"ToArrowFragment", "ToDynamicFragment"})
  THEN [st EXCEPT !.result = OkVoid]
  ELSE LET sym == ResolveOrder[i].symbol
           r == get_func_ptr(lib, st.m.dl_handle_, sym)
           looked == [st EXCEPT !.lookups = Append(@, sym)]
       IN IF ~r.ok
          THEN [looked EXCEPT !.result = r.err]
          ELSE ResolveFromGated(i + 1, lib,
                 [looked EXCEPT !.m[ResolveOrder[i].member] = r.ptr])

\* Init going on to the remaining symbols after a failed lookup
RECURSIVE ResolveFromContinue(_, _, _)
ResolveFromContinue(i, lib, st) ==
  IF i > Len(ResolveOrder)
  THEN st
  ELSE LET sym == ResolveOrder[i].symbol
           r == get_func_ptr(lib, st.m.dl_handle_, sym)
           looked == [st EXCEPT !.lookups = Append(@, sym)]
       IN IF ~r.ok
          THEN ResolveFromContinue(i + 1, lib,
                 [looked EXCEPT !.result = IF @.ok THEN r.err ELSE @])
          ELSE ResolveFromContinue(i + 1, lib,
                 [looked EXCEPT !.m[ResolveOrder[i].member] = r.ptr])

\* The blocks of Init from the i-th on: BOOST_LEAF_AUTO returns the error of
\* a failed get_func_ptr at once; otherwise the pointer is stored.
RECURSIVE ResolveFrom(_, _, _)
ResolveFrom(i, lib, st) ==
  IF i > Len(ResolveOrder)
  THEN [st EXCEPT !.result = OkVoid]
  ELSE LET sym == ResolveOrder[i].symbol
           r == get_func_ptr(lib, st.m.dl_handle_, sym)
           looked == [st EXCEPT !.lookups = Append(@, sym)]
       IN IF ~r.ok
          THEN [looked EXCEPT !.result = r.err]
          ELSE ResolveFrom(i + 1, lib,
                 [looked EXCEPT !.m[ResolveOrder[i].member] = r.ptr])

\* Init with the result of open_lib assigned unchecked
InitBodyNoOpenCheck(lib, m) ==
  LET h == open_lib(lib)
  IN ResolveFrom(1, lib,
       [m |-> [m EXCEPT !.dl_handle_ = h.handle],
        lookups |-> <<>>, result |-> OkVoid, opens |-> 1])

\* Init closing the library again when a symbol is missing
InitBodyCloseOnFailure(lib, m) ==
  LET h == open_lib(lib)
      r == ResolveFrom(1, lib,
             [m |-> [m EXCEPT !.dl_handle_ = h.handle],
              lookups |-> <<>>, result |-> OkVoid, opens |-> 1])
  IN IF ~h.ok
     THEN [m |-> m, lookups |-> <<>>, result |-> h.err, opens |-> 0]
     ELSE IF r.result.ok
          THEN r
          ELSE [r EXCEPT !.m.dl_handle_ = NullHandle, !.opens = 0]

\* Init(): BOOST_LEAF_ASSIGN(dl_handle_, open_lib(...)) returns the error of
\* a failed open before assigning; then the five resolution blocks.
InitBody(lib, m) ==
  LET h == open_lib(lib)
  IN IF ~h.ok
     THEN [m |-> m, lookups |-> <<>>, result |-> h.err, opens |-> 0]
     ELSE ResolveFrom(1, lib,
            [m |-> [m EXCEPT !.dl_handle_ = h.handle],
             lookups |-> <<>>, result |-> OkVoid, opens |-> 1])

----------------------------------------------------------------------------
\* The operation methods

\* Arguments of the callers (each a tuple in the parameter order of the method)
CommSpecs == {"comm_spec"}
Clients == {"client"}
GraphNames == {"g1", "g2"}
Params == {"empty_params"}
FragIds == {"frag_id"}
WrappersIn == {"wrapper_in"}

LoadGraphArgs ==
  {<<c, v, g, p>> : c \in CommSpecs, v \in Clients, g \in GraphNames,
                    p \in Params}
AddToGraphArgs ==
  {<<f, c, v, g, p>> : f \in FragIds, c \in CommSpecs, v \in Clients,
                       g \in GraphNames, p \in Params}
ToArrowFragmentArgs ==
  {<<v, c, w, g>> : v \in Clients, c \in CommSpecs, w \in WrappersIn,
                    g \in GraphNames}
ToDynamicFragmentArgs ==
  {<<c, w, g>> : c \in CommSpecs, w \in WrappersIn, g \in GraphNames}
NoArgs == <<>>

\* What an entry point of the library does with the output slot it is given:
\* it stores a fragment wrapper, stores an error, or returns without writing.
EntryResults ==
  {OkResult("fragment_wrapper"), ErrResult("EntryPointError", "")}
EntryOutcomes ==
  [write : {TRUE}, res : EntryResults]
    \cup {[write |-> FALSE, res |-> DefaultResult]}
NoOutcome == [write |-> FALSE, res |-> DefaultResult]

\* The slot after the entry point has returned
EntryWrite(slot, out) == IF out.write THEN out.res ELSE slot

\* What a call through a null function pointer can do (undefined behaviour):
\* terminate the process, or return with anything in the slot.
UBOutcomes ==
  [crash : {FALSE}, res : EntryResults \cup {DefaultResult}]
    \cup {[crash |-> TRUE, res |-> Crashed]}

\* The outcomes open to a call through fp: the choice matters only when fp
\* is null.
UBChoices(fp) ==
  IF fp = NullPtr
  THEN UBOutcomes
  ELSE {[crash |-> TRUE, res |-> Crashed]}

\* One invocation of the function pointer fp
Invocation(fp, args, slot) == [entry |-> fp, args |-> args, slot |-> slot]

\* Forward with the entry point handed a copy of the slot
ForwardNoSlot(fp, args, out, ub) ==
  LET wrapper == DefaultResult
  IN IF fp = NullPtr
     THEN [invoked |-> <<Invocation(fp, args, wrapper)>>,
           result |-> ub.res, crashed |-> ub.crash]
     ELSE [invoked |-> <<Invocation(fp, args, wrapper)>>,
           result |-> wrapper, crashed |-> FALSE]

\* The body shared by the forwarding methods:
\*   bl::result<...> wrapper;  fp(args..., wrapper);  return wrapper;
Forward(fp, args, out, ub) ==
  LET wrapper == DefaultResult
  IN IF fp = NullPtr
     THEN [invoked |-> <<Invocation(fp, args, wrapper)>>,
           result |-> ub.res, crashed |-> ub.crash]
     ELSE [invoked |-> <<Invocation(fp, args, wrapper)>>,
           result |-> EntryWrite(wrapper, out), crashed |-> FALSE]

\* The #else branch of the conversion methods
Unsupported ==
  [invoked |-> <<>>, result |-> UnsupportedOperation, crashed |-> FALSE]

LoadGraphBody(m, args, out, ub) ==
  Forward(m.load_graph_, args, out, ub)

AddVerticesToGraphBody(m, args, out, ub) ==
  Forward(m.add_vertices_to_graph_, args, out, ub)

\* AddEdgesToGraph calling through the pointer of AddVerticesToGraph
AddEdgesToGraphBodyWrongPtr(m, args, out, ub) ==
  Forward(m.add_vertices_to_graph_, args, out, ub)

AddEdgesToGraphBody(m, args, out, ub) ==
  Forward(m.add_edges_to_graph_, args, out, ub)

\* ToArrowFragment without the #ifdef
ToArrowFragmentBodyUngated(m, args, out, ub) ==
  Forward(m.to_arrow_fragment_, args, out, ub)

ToArrowFragmentBody(m, args, out, ub) ==
  IF experimental
  THEN Forward(m.to_arrow_fragment_, args, out, ub)
  ELSE Unsupported

\* ToDynamicFragment with only the #else branch
ToDynamicFragmentBodyStub(m, args, out, ub) ==
  Unsupported

ToDynamicFragmentBody(m, args, out, ub) ==
  IF experimental
  THEN Forward(m.to_dynamic_fragment_, args, out, ub)
  ELSE Unsupported

----------------------------------------------------------------------------
\* The state machine

NoCall ==
  [op |-> "none", lib |-> NoLib, args |-> NoArgs, out |-> NoOutcome,
   lookups |-> <<>>, invoked |-> <<>>, result |-> OkVoid,
   crashed |-> FALSE, pre |-> Members, pre_init_ok |-> FALSE]

\* The threads that call into the object.  A thread is inside a method
\* (in_method) from the call until the return; in_entry counts the entry
\* point invocations made for it that have not returned; done tells that a
\* call of it has returned.
Threads == 1..NumThreads
IdleThread ==
  [in_method |-> FALSE, in_entry |-> 0, done |-> FALSE,
   op |-> "none", args |-> NoArgs]

\* PropertyGraphUtils(id, lib_path): every pointer member is nullptr
Init ==
  /\ experimental \in BOOLEAN
  /\ lib_path_ \in LibPaths
  /\ released = 0
  /\ th = [t \in Threads |-> IdleThread]
  /\ dl_handle_ = NullHandle
  /\ load_graph_ = NullPtr
  /\ add_vertices_to_graph_ = NullPtr
  /\ add_edges_to_graph_ = NullPtr
  /\ to_arrow_fragment_ = NullPtr
  /\ to_dynamic_fragment_ = NullPtr
  /\ init_ok = FALSE
  /\ init_failed = FALSE
  /\ opened = 0
  /\ ncalls = 0
  /\ alive = TRUE
  /\ call = NoCall

CanCall == alive /\ ncalls < MaxCalls

\* A call of Init() with `lib` at lib_path_
InitCall ==
  /\ CanCall
  /\ \E lib \in Libraries :
       LET r == InitBody(lib, Members)
       IN /\ dl_handle_' = r.m.dl_handle_
          /\ load_graph_' = r.m.load_graph_
          /\ add_vertices_to_graph_' = r.m.add_vertices_to_graph_
          /\ add_edges_to_graph_' = r.m.add_edges_to_graph_
          /\ to_arrow_fragment_' = r.m.to_arrow_fragment_
          /\ to_dynamic_fragment_' = r.m.to_dynamic_fragment_
          /\ call' = [op |-> "Init", lib |-> lib, args |-> NoArgs,
                      out |-> NoOutcome, lookups |-> r.lookups,
                      invoked |-> <<>>, result |-> r.result,
                      crashed |-> FALSE, pre |-> Members,
                      pre_init_ok |-> init_ok]
          /\ init_ok' = (init_ok \/ r.result.ok)
          /\ init_failed' = (init_failed \/ ~r.result.ok)
          /\ opened' = opened + r.opens
  /\ ncalls' = ncalls + 1
  /\ UNCHANGED <<experimental, lib_path_, released, th, alive>>

\* An operation method that drops the library handle when the call failed
OpReturnResets(op, args, out, r) ==
  /\ call' = [op |-> op, lib |-> NoLib, args |-> args, out |-> out,
              lookups |-> <<>>, invoked |-> r.invoked, result |-> r.result,
              crashed |-> r.crashed, pre |-> Members,
              pre_init_ok |-> init_ok]
  /\ alive' = ~r.crashed
  /\ ncalls' = ncalls + 1
  /\ dl_handle_' = IF r.result.ok THEN dl_handle_ ELSE NullHandle
  /\ UNCHANGED <<experimental, lib_path_, released, th,
                 load_graph_, add_vertices_to_graph_, add_edges_to_graph_,
                 to_arrow_fragment_, to_dynamic_fragment_,
                 init_ok, init_failed, opened>>

\* The return of an operation method: no member is written
OpReturn(op, args, out, r) ==
  /\ call' = [op |-> op, lib |-> NoLib, args |-> args, out |-> out,
              lookups |-> <<>>, invoked |-> r.invoked, result |-> r.result,
              crashed |-> r.crashed, pre |-> Members,
              pre_init_ok |-> init_ok]
  /\ alive' = ~r.crashed
  /\ ncalls' = ncalls + 1
  /\ UNCHANGED <<experimental, lib_path_, released, th, dl_handle_,
                 load_graph_, add_vertices_to_graph_, add_edges_to_graph_,
                 to_arrow_fragment_, to_dynamic_fragment_,
                 init_ok, init_failed, opened>>

LoadGraph ==
  /\ CanCall
  /\ \E args \in LoadGraphArgs, out \in EntryOutcomes,
        ub \in UBChoices(load_graph_) :
       OpReturn("LoadGraph", args, out,
                LoadGraphBody(Members, args, out, ub))

AddVerticesToGraph ==
  /\ CanCall
  /\ \E args \in AddToGraphArgs, out \in EntryOutcomes,
        ub \in UBChoices(add_vertices_to_graph_) :
       OpReturn("AddVerticesToGraph", args, out,
                AddVerticesToGraphBody(Members, args, out, ub))

AddEdgesToGraph ==
  /\ CanCall
  /\ \E args \in AddToGraphArgs, out \in EntryOutcomes,
        ub \in UBChoices(add_edges_to_graph_) :
       OpReturn("AddEdgesToGraph", args, out,
                AddEdgesToGraphBody(Members, args, out, ub))

ToArrowFragment ==
  /\ CanCall
  /\ \E args \in ToArrowFragmentArgs, out \in EntryOutcomes,
        ub \in UBChoices(to_arrow_fragment_) :
       OpReturn("ToArrowFragment", args, out,
                ToArrowFragmentBody(Members, args, out, ub))

ToDynamicFragment ==
  /\ CanCall
  /\ \E args \in ToDynamicFragmentArgs, out \in EntryOutcomes,
        ub \in UBChoices(to_dynamic_fragment_) :
       OpReturn("ToDynamicFragment", args, out,
                ToDynamicFragmentBody(Members, args, out, ub))

\* Destruction of the object: the class declares no destructor, so the
\* members are dropped as they are and the library handle is not closed.
Destroy ==
  /\ CanCall
  /\ call' = [op |-> "Destroy", lib |-> NoLib, args |-> NoArgs,
              out |-> NoOutcome, lookups |-> <<>>, invoked |-> <<>>,
              result |-> OkVoid, crashed |-> FALSE, pre |-> Members,
              pre_init_ok |-> init_ok]
  /\ alive' = FALSE
  /\ ncalls' = ncalls + 1
  /\ UNCHANGED <<experimental, lib_path_, released, th, dl_handle_,
                 load_graph_, add_vertices_to_graph_, add_edges_to_graph_,
                 to_arrow_fragment_, to_dynamic_fragment_,
                 init_ok, init_failed, opened>>

Next ==
  \/ InitCall
  \/ LoadGraph
  \/ AddVerticesToGraph
  \/ AddEdgesToGraph
  \/ ToArrowFragment
  \/ ToDynamicFragment
  \/ Destroy

Spec == Init /\ [][Next]_vars

----------------------------------------------------------------------------
\* The operation methods called from several threads.  The methods take no
\* lock; a call is split at the call through the function pointer: the
\* thread enters the entry point, and returns from it later.

ArgsOf(op) ==
  CASE op = "LoadGraph" -> LoadGraphArgs
    [] op = "AddVerticesToGraph" -> AddToGraphArgs
    [] op = "AddEdgesToGraph" -> AddToGraphArgs
    [] op = "ToArrowFragment" -> ToArrowFragmentArgs
    [] op = "ToDynamicFragment" -> ToDynamicFragmentArgs

\* The arguments of the calls made from the threads: they all work on the
\* graph "g1"
ThreadArgsOf(op) ==
  {a \in ArgsOf(op) : \E i \in DOMAIN a : a[i] = "g1"}

BodyOf(op, m, args, out, ub) ==
  CASE op = "LoadGraph" -> LoadGraphBody(m, args, out, ub)
    [] op = "AddVerticesToGraph" -> AddVerticesToGraphBody(m, args, out, ub)
    [] op = "AddEdgesToGraph" -> AddEdgesToGraphBody(m, args, out, ub)
    [] op = "ToArrowFragment" -> ToArrowFragmentBody(m, args, out, ub)
    [] op = "ToDynamicFragment" -> ToDynamicFragmentBody(m, args, out, ub)

\* The entry points of the library that the call r runs
RealEntries(r) ==
  IF r.crashed
  THEN 0
  ELSE Cardinality({i \in 1..Len(r.invoked) : r.invoked[i].entry # NullPtr})

\* The call of op goes through a null function pointer
NullCall(op, args) ==
  BodyOf(op, Members, args, NoOutcome, [crash |-> TRUE, res |-> Crashed]).crashed

\* A method that hands the call to the entry point and returns at once
MethodBlocksNever(r) == FALSE

\* fp(args..., wrapper); return wrapper;  the call through the pointer is an
\* ordinary call: the method is on the stack of its thread until the entry
\* point returns.
MethodBlocks(r) == RealEntries(r) > 0

CallRecord(op, args, out, r) ==
  [op |-> op, lib |-> NoLib, args |-> args, out |-> out,
   lookups |-> <<>>, invoked |-> r.invoked, result |-> r.result,
   crashed |-> r.crashed, pre |-> Members, pre_init_ok |-> init_ok]

\* Init() called before the threads start calling operation methods (calls
\* of Init are serialized by the caller and precede the operation calls)
SerialInit ==
  /\ \A t \in Threads : th[t] = IdleThread
  /\ InitCall

\* Thread t calls an operation method, which calls through its pointer
ThreadEnter(t) ==
  /\ CanCall
  /\ ~th[t].in_method
  /\ \E op \in {"LoadGraph", "AddVerticesToGraph", "AddEdgesToGraph",
                 "ToArrowFragment", "ToDynamicFragment"} :
       \E args \in ThreadArgsOf(op) :
       \E ub \in IF NullCall(op, args)
                 THEN UBOutcomes
                 ELSE {[crash |-> TRUE, res |-> Crashed]} :
         LET r == BodyOf(op, Members, args, NoOutcome, ub)
         IN IF RealEntries(r) = 0
            THEN /\ call' = CallRecord(op, args, NoOutcome, r)
                 /\ alive' = ~r.crashed
                 /\ th' = [th EXCEPT ![t].done = TRUE]
            ELSE /\ th' = [th EXCEPT
                             ![t].in_method = MethodBlocks(r),
                             ![t].in_entry = @ + RealEntries(r),
                             ![t].op = op,
                             ![t].args = args]
                 /\ UNCHANGED <<call, alive>>
  /\ ncalls' = ncalls + 1
  /\ UNCHANGED <<experimental, lib_path_, released, dl_handle_,
                 load_graph_, add_vertices_to_graph_, add_edges_to_graph_,
                 to_arrow_fragment_, to_dynamic_fragment_,
                 init_ok, init_failed, opened>>

\* The entry point running for thread t returns; the method returns wrapper
EntryReturn(t) ==
  /\ alive
  /\ th[t].in_entry > 0
  /\ \E out \in EntryOutcomes :
       LET r == BodyOf(th[t].op, Members, th[t].args, out,
                       [crash |-> TRUE, res |-> Crashed])
       IN call' = CallRecord(th[t].op, th[t].args, out, r)
  /\ th' = [th EXCEPT ![t].in_method = FALSE,
                      ![t].in_entry = @ - 1,
                      ![t].done = TRUE]
  /\ UNCHANGED <<experimental, lib_path_, released, dl_handle_,
                 load_graph_, add_vertices_to_graph_, add_edges_to_graph_,
                 to_arrow_fragment_, to_dynamic_fragment_,
                 init_ok, init_failed, opened, ncalls, alive>>

NextThreads ==
  \/ SerialInit
  \/ \E t \in Threads : ThreadEnter(t)
  \/ \E t \in Threads : EntryReturn(t)

SpecThreads == Init /\ [][NextThreads]_vars

TypeOK ==
  /\ experimental \in BOOLEAN
  /\ dl_handle_ \in 0..MaxLibs
  /\ ncalls \in 0..MaxCalls
  /\ opened \in 0..MaxCalls
  /\ released \in 0..opened
  /\ lib_path_ \in LibPaths

----------------------------------------------------------------------------
\* Properties

ForwardingOps == {"LoadGraph", "AddVerticesToGraph", "AddEdgesToGraph"}
ConversionOps == {"ToArrowFragment", "ToDynamicFragment"}
OperationNames == ForwardingOps \cup ConversionOps

\* The resolution order and the member of each operation, as documented
ClaimedOrder ==
  <<"LoadGraph", "AddVerticesToGraph", "AddEdgesToGraph",
    "ToArrowFragment", "ToDynamicFragment">>
ClaimedSymbols == {ClaimedOrder[i] : i \in DOMAIN ClaimedOrder}
ClaimedMembers ==
  <<"load_graph_", "add_vertices_to_graph_", "add_edges_to_graph_",
    "to_arrow_fragment_", "to_dynamic_fragment_">>
OwnMember(op) ==
  ClaimedMembers[CHOOSE i \in DOMAIN ClaimedOrder : ClaimedOrder[i] = op]
FirstMissing(exports) ==
  ClaimedOrder[CHOOSE i \in DOMAIN ClaimedOrder :
                 /\ ClaimedOrder[i] \notin exports
                 /\ \A j \in 1..(i - 1) : ClaimedOrder[j] \in exports]

AllResolved(m) == \A i \in DOMAIN ClaimedMembers : m[ClaimedMembers[i]] # NullPtr
AllUnresolved(m) == \A i \in DOMAIN ClaimedMembers : m[ClaimedMembers[i]] = NullPtr
Unset(m) == m.dl_handle_ = NullHandle /\ AllUnresolved(m)

\* C1: an operation method called on an object with no successful Init is
\* rejected with an error and does not call through a null function pointer.
C1_RejectedBeforeInit ==
  (call.op \in OperationNames /\ ~call.pre_init_ok)
    => /\ ~call.crashed
       /\ ~call.result.ok
       /\ \A i \in 1..Len(call.invoked) : call.invoked[i].entry # NullPtr

\* C2: once an Init call has returned, the five bindings are all resolved or
\* all unresolved.
C2_NoPartialReady ==
  (init_ok \/ init_failed) => (AllResolved(Members) \/ AllUnresolved(Members))

\* C3: Init on a library that opens but lacks a required symbol fails with
\* the symbol-resolution error naming the first missing symbol of the order
\* LoadGraph, AddVerticesToGraph, AddEdgesToGraph, ToArrowFragment,
\* ToDynamicFragment.
C3_FirstMissingNamed ==
  (call.op = "Init" /\ call.lib.openable /\ call.lib.exports # ClaimedSymbols)
    => /\ ~call.result.ok
       /\ call.result.code = "SymbolResolutionError"
       /\ call.result.symbol = FirstMissing(call.lib.exports)

C3_Witness ==
  /\ call.op = "Init"
  /\ call.lib.openable
  /\ call.lib.exports = {"LoadGraph", "AddVerticesToGraph"}
  /\ call.result.symbol = "AddEdgesToGraph"

\* C4: Init on a library that cannot be opened fails with the library-load
\* error, looks up no symbol, and leaves dl_handle_ and the five bindings as
\* they were: unset on an object where they were unset, which stays unready.
C4_OpenFailure ==
  (call.op = "Init" /\ ~call.lib.openable)
    => /\ call.result = ErrResult("LibraryLoadError", "")
       /\ call.lookups = <<>>
       /\ Members = call.pre
       /\ (Unset(call.pre) => Unset(Members))
       /\ (~call.pre_init_ok => ~init_ok)

C4_Witness ==
  /\ call.op = "Init"
  /\ ~call.lib.openable
  /\ call.lib.exports = ClaimedSymbols
  /\ Unset(call.pre)
  /\ ~init_ok

\* C5: without EXPERIMENTAL_ON, ToArrowFragment and ToDynamicFragment return
\* the unsupported-operation error in every object state and invoke nothing.
C5_UnsupportedWhenDisabled ==
  (~experimental /\ call.op \in ConversionOps)
    => /\ call.result = ErrResult("kUnsupportedOperationError", "")
       /\ call.invoked = <<>>
       /\ ~call.crashed

C5_Witness ==
  /\ ~experimental
  /\ call.op = "ToArrowFragment"
  /\ init_failed
  /\ call.pre.to_arrow_fragment_ = NullPtr
  /\ call.result.code = "kUnsupportedOperationError"

\* C6 as stated: without EXPERIMENTAL_ON, Init succeeds on a library that
\* exports LoadGraph, AddVerticesToGraph and AddEdgesToGraph and neither
\* conversion symbol.
C6_Original ==
  (/\ ~experimental
   /\ call.op = "Init"
   /\ call.lib.openable
   /\ call.lib.exports = ForwardingOps)
    => call.result.ok

\* C6 amended: the two conversion symbols are required in every build: Init
\* succeeds only on a library exporting both, and on a library exporting the
\* three other symbols and neither conversion symbol it fails with the
\* symbol-resolution error naming ToArrowFragment, with or without
\* EXPERIMENTAL_ON.
C6_ConversionSymbolsAlwaysRequired ==
  /\ (call.op = "Init" /\ call.result.ok)
       => ConversionOps \subseteq call.lib.exports
  /\ (call.op = "Init" /\ call.lib.openable
        /\ call.lib.exports = ForwardingOps)
       => call.result = ErrResult("SymbolResolutionError", "ToArrowFragment")

C6_Witness ==
  /\ ~experimental
  /\ call.op = "Init"
  /\ call.lib.openable
  /\ call.lib.exports = ForwardingOps
  /\ ~call.result.ok

\* C7: Init on a library that opens and exports all five symbols succeeds
\* with dl_handle_ and the five bindings resolved to that library; and once
\* an Init has succeeded every operation call (conversions: with
\* EXPERIMENTAL_ON) reaches the entry point bound to its own name.
C7_ReadyAfterInit ==
  /\ (call.op = "Init" /\ call.lib.openable
        /\ call.lib.exports = ClaimedSymbols)
       => /\ call.result = OkResult("void")
          /\ dl_handle_ = call.lib.id
          /\ \A i \in DOMAIN ClaimedOrder :
               Members[ClaimedMembers[i]]
                 = [lib |-> call.lib.id, sym |-> ClaimedOrder[i]]
  /\ (/\ call.op \in OperationNames
      /\ call.pre_init_ok
      /\ (call.op \in ConversionOps => experimental))
       => /\ ~call.crashed
          /\ Len(call.invoked) = 1
          /\ call.invoked[1].entry = call.pre[OwnMember(call.op)]
          /\ call.invoked[1].entry.sym = call.op
          /\ call.invoked[1].entry.lib # NullHandle

C7_Witness ==
  /\ call.op = "AddEdgesToGraph"
  /\ call.pre_init_ok
  /\ ncalls >= 3
  /\ call.invoked[1].entry.sym = "AddEdgesToGraph"

\* C8: dl_handle_ and each of the five bindings, once set, never changes
\* value, whatever is called afterwards (a second Init included).
C8_NeverReassigned ==
  [][ /\ (dl_handle_ # NullHandle => dl_handle_' = dl_handle_)
      /\ \A i \in DOMAIN ClaimedMembers :
           Members[ClaimedMembers[i]] # NullPtr
             => Members'[ClaimedMembers[i]] = Members[ClaimedMembers[i]] ]_vars

\* C9: on an object whose Init succeeded, LoadGraph, AddVerticesToGraph and
\* AddEdgesToGraph invoke the entry point once, with the caller's arguments
\* and a fresh slot, and return what the entry point stored in the slot.
C9_ForwardOnce ==
  (call.op \in ForwardingOps /\ call.pre_init_ok)
    => /\ ~call.crashed
       /\ Len(call.invoked) = 1
       /\ call.invoked[1].args = call.args
       /\ call.invoked[1].slot = OkResult("nullptr")
       /\ (call.out.write => call.result = call.out.res)

C9_Witness ==
  /\ call.op \in ForwardingOps
  /\ call.pre_init_ok
  /\ call.out.write
  /\ ~call.out.res.ok
  /\ call.result = call.out.res

\* C10: with EXPERIMENTAL_ON, on an object whose Init succeeded, the two
\* conversion methods invoke their entry point once with the caller's inputs
\* and return what it produced, never the unsupported-operation error.
C10_ConversionForwards ==
  (experimental /\ call.op \in ConversionOps /\ call.pre_init_ok)
    => /\ ~call.crashed
       /\ Len(call.invoked) = 1
       /\ call.invoked[1].entry.sym = call.op
       /\ call.invoked[1].args = call.args
       /\ (call.out.write => call.result = call.out.res)
       /\ call.result.code # "kUnsupportedOperationError"

C10_Witness ==
  /\ experimental
  /\ call.op = "ToDynamicFragment"
  /\ call.pre_init_ok
  /\ call.out.write
  /\ call.result = call.out.res

\* C12: Init opens the library before any lookup, looks the symbols up in
\* the order LoadGraph, AddVerticesToGraph, AddEdgesToGraph, ToArrowFragment,
\* ToDynamicFragment, each at most once, and looks up nothing after the first
\* lookup that failed.
C12_FailFastOrdered ==
  (call.op = "Init")
    => /\ (call.lookups # <<>>
             => call.lib.openable /\ dl_handle_ = call.lib.id)
       /\ Len(call.lookups) <= Len(ClaimedOrder)
       /\ \A i \in 1..Len(call.lookups) : call.lookups[i] = ClaimedOrder[i]
       /\ \A i \in 1..(Len(call.lookups) - 1) :
            call.lookups[i] \in call.lib.exports
       /\ (call.lib.openable
             => /\ call.lookups # <<>>
                /\ \/ Len(call.lookups) = Len(ClaimedOrder)
                   \/ call.lookups[Len(call.lookups)] \notin call.lib.exports)

C12_Witness ==
  /\ call.op = "Init"
  /\ call.lib.openable
  /\ call.lib.exports = ClaimedSymbols \ {"AddVerticesToGraph"}
  /\ call.lookups = <<"LoadGraph", "AddVerticesToGraph">>

\* C13: once an Init call has returned an error, no later Init call returns
\* success and makes the object ready.
C13_FailedInitPermanent ==
  [][ init_failed
        => ~(/\ ncalls' = ncalls + 1
             /\ call'.op = "Init"
             /\ call'.result.ok
             /\ AllResolved(Members')) ]_vars

\* C14: a call of LoadGraph, AddVerticesToGraph, AddEdgesToGraph,
\* ToArrowFragment or ToDynamicFragment, successful or not, leaves lib_path_,
\* dl_handle_ and the five bindings unchanged.
C14_OperationsReadOnly ==
  [][ (ncalls' = ncalls + 1 /\ call'.op \in OperationNames)
        => /\ lib_path_' = lib_path_
           /\ dl_handle_' = dl_handle_
           /\ \A i \in DOMAIN ClaimedMembers :
                Members'[ClaimedMembers[i]] = Members[ClaimedMembers[i]] ]_vars

C14_Witness ==
  /\ call.op \in OperationNames
  /\ call.pre_init_ok
  /\ ~call.result.ok
  /\ ~call.crashed
  /\ Members = call.pre
  /\ dl_handle_ # NullHandle

\* C15: the library handle is never released: every Init whose open step
\* succeeded adds one handle that stays open and stored in dl_handle_ (also
\* when a symbol is then missing, also over an earlier handle), and no
\* operation and no destruction closes a handle.
C15_HandleNeverReleased ==
  [][ /\ released' = released
      /\ released = 0
      /\ (ncalls' = ncalls + 1 /\ call'.op = "Init")
           => /\ (opened' - released')
                   = (opened - released)
                       + (IF call'.lib.openable THEN 1 ELSE 0)
              /\ (call'.lib.openable => dl_handle_' = call'.lib.id)
      /\ (ncalls' = ncalls + 1 /\ call'.op # "Init")
           => /\ opened' = opened
              /\ dl_handle_' = dl_handle_ ]_vars

C15_Witness ==
  /\ call.op = "Init"
  /\ call.lib.openable
  /\ ~call.result.ok
  /\ call.pre.dl_handle_ \notin {NullHandle, call.lib.id}
  /\ dl_handle_ = call.lib.id
  /\ opened = 2
  /\ released = 0

\* C16: the slot handed to an entry point is a success holding a null
\* fragment handle, so a call whose entry point returns without writing the
\* slot returns success with a null fragment handle.
C16_UnwrittenSlotIsNullSuccess ==
  (/\ call.op \in OperationNames
   /\ Len(call.invoked) = 1
   /\ call.invoked[1].entry # NullPtr
   /\ ~call.out.write)
    => /\ call.invoked[1].slot = OkResult("nullptr")
       /\ call.result = OkResult("nullptr")

C16_Witness ==
  /\ call.op = "LoadGraph"
  /\ call.pre_init_ok
  /\ ~call.out.write
  /\ Len(call.invoked) = 1
  /\ call.result = OkResult("nullptr")

\* C11 as stated: whatever the interleaving of the callers of a ready
\* instance, at most one call is inside an entry point at a time.
C11_Original ==
  init_ok
    => \A t \in Threads, u \in Threads :
         (t # u) => ~(th[t].in_entry > 0 /\ th[u].in_entry > 0)

\* C11 amended: the methods are synchronous, not serialized: a thread is
\* inside the method for as long as the entry point of its call runs, so the
\* calls made by one thread never overlap inside entry points, while calls
\* made by different threads on the same instance may.
C11_SynchronousPerThread ==
  \A t \in Threads :
    /\ th[t].in_entry <= 1
    /\ (th[t].in_entry = 1 => th[t].in_method)

C11_Witness ==
  \E t \in Threads :
    /\ init_ok
    /\ th[t].done
    /\ th[t].in_entry = 1
    /\ th[t].in_method
    /\ call.op \in ForwardingOps

====
